---- MODULE Spec2Model ----
(***************************************************************************)
(* The sliding-window rate limiter (class RateLimit) called from several   *)
(* threads under its mutex, with the steady clock quantized into time      *)
(* slices.  The history variables (granted, denied, last, fresh) record    *)
(* what the calls returned; the program does not read them.                *)
(***************************************************************************)
EXTENDS Integers, Sequences, FiniteSets, TLC

\* ---------------------------------------------------------------- bounds
\* Slices per second.  The program uses 1000; the model scales the second
\* down so that whole windows fit into the explored time horizon.
N_TIME_SLICES == 3
\* Largest maxRPS the constructor is given.
MaxRPS == 2
\* Number of threads calling tryAquireRequestTicket.
NThreads == 2
\* Last time slice the clock reaches.
MaxSlice == 10
\* Latest time slice at which the limiter is constructed.
MaxStart == 1
\* Number of calls made in one behaviour.
MaxCalls == 6
\* Calls each worker makes through API::call.  The program makes 1000.
CallsPerThread == 1
\* Slices the clock advances while the workers run.
ApiSlices == 1
\* Largest number of rows printStat prints.
MaxRows == 11

\* ------------------------------------------------------------- constants
HISTORY_LENGTH == N_TIME_SLICES + 1
\* printStat: the rolling sum starts at row i - 9
ROLL_BACK == 9
\* lift: if (n_floors < 5 || n_floors > 20) return 1
MIN_FLOORS == 5
MAX_FLOORS == 20

Threads == 1..NThreads
NoThread == 0
\* Time slices since the clock's epoch.  The program keeps them in uint64_t
\* and the counters in int; neither wraps within the explored horizon.
Slices == 0..MaxSlice
Slots == 0..(HISTORY_LENGTH - 1)

VARIABLES
    now,                \* steady_clock::now() in time slices
    mLastUpdateSlice,
    mMaxRPS,
    mRequestCounters,
    mCurrentRPS,
    mLock,              \* the thread holding RateLimit::mLock, or NoThread
    pc,                 \* per thread: "ready" or "locked" (inside lock_guard)
    granted,            \* history: calls that returned true, per slice
    denied,             \* history: calls that returned false, per slice
    last,               \* history: the most recent completed call
    fresh,              \* history: a limiter constructed at the call that
                        \* last followed more than a second without calls
    seen,               \* per thread: its local current_slice
    passed,             \* per thread: what its test of line 74 found
    mStartDate,         \* API: the clock at construction, in slices
    mSuccessfullCalls,  \* API: sequence of counts, bucket b at index b + 1
    mRateLimitedCalls,
    apiLock,            \* the thread holding API::mLock, or NoThread
    called,             \* per thread: the local of API::call
    time_index,         \* per thread: the local of API::call
    iter,               \* per thread: the loop counter of thread_func
    mainpc,             \* main: "join", "print" inside printStat, "done"
                        \* after it, "crashed" if it ended abnormally
    stat_i,             \* printStat: the loop variable i
    rolling,            \* printStat: the last column of the last row printed
    n_floors,           \* lift: the locals of main
    current_floor,
    destination_floor,
    lift_state,
    cmd,                \* lift: the local n, last extracted from std::cin
    cin_good,           \* lift: std::cin.good()
    liftpc,             \* lift: "loop", "terminated" past the loop
    moves,              \* history: floors moved since the last command
    dist                \* history: |n - current_floor| at the last command

\* the locals of a call that runs the critical section statement by statement
csVars == <<seen, passed>>

\* the state of API and of the workers of main
apiVars == <<mStartDate, mSuccessfullCalls, mRateLimitedCalls, apiLock,
             called, time_index, iter, mainpc>>

\* the locals of printStat
statVars == <<stat_i, rolling>>

\* the state of the lift program
liftVars == <<n_floors, current_floor, destination_floor, lift_state, cmd,
              cin_good, liftpc, moves, dist>>

\* what RateLimit, API::call and the workers never touch
otherVars == <<statVars, liftVars>>

\* what the calls of tryAquireRequestTicket taken as one step leave alone
notLimiter == <<csVars, apiVars, otherVars>>

vars == <<now, mLastUpdateSlice, mMaxRPS, mRequestCounters, mCurrentRPS,
          mLock, pc, granted, denied, last, fresh, csVars, apiVars,
          otherVars>>

\* ------------------------------------------------------------- helpers
RECURSIVE SumTo(_, _)
\* f[0] + ... + f[n]
SumTo(f, n) == IF n < 0 THEN 0 ELSE f[n] + SumTo(f, n - 1)

\* f[a] + ... + f[b], indices outside 0..MaxSlice counting as 0
RECURSIVE SumRange(_, _, _)
SumRange(f, a, b) ==
    IF a > b THEN 0
    ELSE (IF b \in DOMAIN f THEN f[b] ELSE 0) + SumRange(f, a, b - 1)

nCalls == SumTo(granted, MaxSlice) + SumTo(denied, MaxSlice)

\* ------------------------------------------------------------ RateLimit
\* a loop that zeroes the slots but forgets the subtraction
RECURSIVE AgeLoopNoSubtract(_, _, _, _)
AgeLoopNoSubtract(i, stop, counters, rps) ==
    IF i = stop THEN [counters |-> counters, rps |-> rps]
    ELSE AgeLoopNoSubtract((i + 1) % HISTORY_LENGTH, stop,
                           [counters EXCEPT ![i] = 0], rps)

\* the for loop of the partial aging branch
RECURSIVE AgeLoop(_, _, _, _)
AgeLoop(i, stop, counters, rps) ==
    IF i = stop THEN [counters |-> counters, rps |-> rps]
    ELSE AgeLoop((i + 1) % HISTORY_LENGTH, stop,
                 [counters EXCEPT ![i] = 0], rps - counters[i])

\* the number of times the body of that for loop runs
RECURSIVE AgeCount(_, _)
AgeCount(i, stop) ==
    IF i = stop THEN 0 ELSE 1 + AgeCount((i + 1) % HISTORY_LENGTH, stop)

\* a loop that starts at the slot of the last call itself
AgeFromLast(from_index) == from_index % HISTORY_LENGTH

\* first index the aging loop visits
AgeFrom(from_index) == (from_index + 1) % HISTORY_LENGTH

\* a loop that stops before the slot of the current slice
AgeStopAtCurrent(to_index) == to_index % HISTORY_LENGTH

\* index at which the aging loop stops
AgeStop(to_index) == (to_index + 1) % HISTORY_LENGTH

\* a full reset that forgets mCurrentRPS = 0
FullResetKeepAggregate(counters, rps) ==
    [counters |-> [i \in Slots |-> 0], rps |-> rps]

\* a full reset that forgets mRequestCounters.fill(0)
FullResetKeepSlots(counters, rps) ==
    [counters |-> counters, rps |-> 0]

\* the else branch: fill(0) and mCurrentRPS = 0
FullReset(counters, rps) ==
    [counters |-> [i \in Slots |-> 0], rps |-> 0]

\* a second branch taken for less than N_TIME_SLICES elapsed slices only
WithinSecond(current_slice, lastSlice) ==
    current_slice - lastSlice < N_TIME_SLICES

\* the test of the second branch; the subtraction is in uint64_t, so a
\* current_slice below lastSlice gives a difference far above HISTORY_LENGTH
WithinHistory(current_slice, lastSlice) ==
    /\ current_slice >= lastSlice
    /\ current_slice - lastSlice < HISTORY_LENGTH

\* which branch of the reconciliation runs
PathOf(current_slice, lastSlice) ==
    IF current_slice = lastSlice THEN "same"
    ELSE IF WithinHistory(current_slice, lastSlice) THEN "partial"
    ELSE "full"

\* counters and aggregate after the if / else-if / else
Reconcile(current_slice, lastSlice, counters, rps) ==
    LET to_index == current_slice % HISTORY_LENGTH
        from_index == lastSlice % HISTORY_LENGTH
        path == PathOf(current_slice, lastSlice)
    IN  IF path = "same" THEN [counters |-> counters, rps |-> rps]
        ELSE IF path = "partial"
             THEN AgeLoop(AgeFrom(from_index), AgeStop(to_index),
                          counters, rps)
        ELSE FullReset(counters, rps)

\* an admission test that is off by one
HasCapacityOrEqual(rps, maxRPS) == rps <= maxRPS

\* the admission test
HasCapacity(rps, maxRPS) == rps < maxRPS

\* an admission recorded in the slot after the current one
RecordNext(counters, to_index, ok) ==
    IF ok THEN [counters EXCEPT ![(to_index + 1) % HISTORY_LENGTH] = @ + 1]
    ELSE counters

\* a slot incremented by denied calls too
RecordAlways(counters, to_index, ok) ==
    [counters EXCEPT ![to_index] = @ + 1]

\* the counters after an admission or a denial
Record(counters, to_index, ok) ==
    IF ok THEN [counters EXCEPT ![to_index] = @ + 1] ELSE counters

\* the whole body on a limiter given as a record
Ticket(rl, current_slice) ==
    LET rec == Reconcile(current_slice, rl.last, rl.counters, rl.rps)
        ok == HasCapacity(rec.rps, rl.max)
    IN  [last |-> current_slice, max |-> rl.max,
         counters |-> Record(rec.counters, current_slice % HISTORY_LENGTH, ok),
         rps |-> IF ok THEN rec.rps + 1 ELSE rec.rps,
         result |-> ok]

\* RateLimit(maxRPS) constructed at time slice s
Construct(maxRPS, s) ==
    [last |-> s, max |-> maxRPS, counters |-> [i \in Slots |-> 0], rps |-> 0]

\* API(rateLimit) constructed at slice s, before any worker runs
ApiConstructed(s) ==
    /\ mStartDate = s
    /\ mSuccessfullCalls = <<>>
    /\ mRateLimitedCalls = <<>>
    /\ apiLock = NoThread
    /\ called = [t \in Threads |-> FALSE]
    /\ time_index = [t \in Threads |-> 0]
    /\ iter = [t \in Threads |-> 0]
    /\ mainpc = "join"

\* no lift program runs
LiftOff ==
    /\ n_floors = 0
    /\ current_floor = 0
    /\ destination_floor = 0
    /\ lift_state = "idle"
    /\ cmd = 0
    /\ cin_good = FALSE
    /\ liftpc = "off"
    /\ moves = 0
    /\ dist = 0

\* history before the first call
NoCall == [done |-> FALSE, slice |-> 0, result |-> FALSE, elapsed |-> 0,
           prior |-> 0, prev |-> FALSE]

Init ==
    /\ now \in 0..MaxStart
    /\ mMaxRPS \in 0..MaxRPS
    /\ mLastUpdateSlice = now
    /\ mRequestCounters = [i \in Slots |-> 0]
    /\ mCurrentRPS = 0
    /\ mLock = NoThread
    /\ pc = [t \in Threads |-> "ready"]
    /\ granted = [s \in Slices |-> 0]
    /\ denied = [s \in Slices |-> 0]
    /\ last = NoCall
    /\ fresh = [active |-> FALSE]
    /\ seen = [t \in Threads |-> 0]
    /\ passed = [t \in Threads |-> FALSE]
    /\ ApiConstructed(0)
    /\ stat_i = 0 /\ rolling = 0
    /\ LiftOff

\* the steady clock advances by one slice
Tick ==
    /\ now < MaxSlice
    /\ now' = now + 1
    /\ UNCHANGED <<mLastUpdateSlice, mMaxRPS, mRequestCounters, mCurrentRPS,
                   mLock, pc, granted, denied, last, fresh>>
    /\ UNCHANGED notLimiter

\* a guard that does not wait for the mutex to be free
LockGuardNoWait(t) ==
    /\ pc[t] = "ready"
    /\ nCalls < MaxCalls
    /\ mLock' = t
    /\ pc' = [pc EXCEPT ![t] = "locked"]
    /\ UNCHANGED <<now, mLastUpdateSlice, mMaxRPS, mRequestCounters,
                   mCurrentRPS, granted, denied, last, fresh>>
    /\ UNCHANGED notLimiter

\* std::lock_guard<std::mutex> guard(mLock)
LockGuard(t) ==
    /\ pc[t] = "ready"
    /\ mLock = NoThread
    /\ nCalls < MaxCalls
    /\ mLock' = t
    /\ pc' = [pc EXCEPT ![t] = "locked"]
    /\ UNCHANGED <<now, mLastUpdateSlice, mMaxRPS, mRequestCounters,
                   mCurrentRPS, granted, denied, last, fresh>>
    /\ UNCHANGED notLimiter

\* the body of tryAquireRequestTicket, from the clock read to the return
\* (which releases the guard)
tryAquireRequestTicket(t) ==
    /\ pc[t] = "locked"
    /\ mLock = t
    /\ LET current_slice == now
           rl == [last |-> mLastUpdateSlice, max |-> mMaxRPS,
                  counters |-> mRequestCounters, rps |-> mCurrentRPS]
           out == Ticket(rl, current_slice)
           elapsed == current_slice - mLastUpdateSlice
           idle == elapsed > N_TIME_SLICES
           f0 == IF idle THEN Construct(mMaxRPS, current_slice) ELSE fresh
       IN  /\ mLastUpdateSlice' = out.last
           /\ mRequestCounters' = out.counters
           /\ mCurrentRPS' = out.rps
           /\ granted' = IF out.result
                         THEN [granted EXCEPT ![current_slice] = @ + 1]
                         ELSE granted
           /\ denied' = IF out.result THEN denied
                        ELSE [denied EXCEPT ![current_slice] = @ + 1]
           /\ last' = [done |-> TRUE, slice |-> current_slice,
                       result |-> out.result, elapsed |-> elapsed,
                       prior |-> mCurrentRPS, prev |-> last.result]
           /\ fresh' = IF idle \/ fresh.active
                       THEN [active |-> TRUE,
                             born |-> IF idle THEN current_slice
                                      ELSE fresh.born]
                            @@ Ticket(f0, current_slice)
                       ELSE fresh
    /\ mLock' = NoThread
    /\ pc' = [pc EXCEPT ![t] = "ready"]
    /\ UNCHANGED <<now, mMaxRPS>>
    /\ UNCHANGED notLimiter

Next ==
    \/ Tick
    \/ \E t \in Threads : LockGuard(t)
    \/ \E t \in Threads : tryAquireRequestTicket(t)

Spec == Init /\ [][Next]_vars

\* ------------------------------------- the critical section, step by step
\* uint64_t current_slice = get_time_slices_since_epoch()
ReadClock(t) ==
    /\ pc[t] = "locked"
    /\ seen' = [seen EXCEPT ![t] = now]
    /\ pc' = [pc EXCEPT ![t] = "read"]
    /\ UNCHANGED <<now, mLastUpdateSlice, mMaxRPS, mRequestCounters,
                   mCurrentRPS, mLock, granted, denied, last, fresh, passed>>
    /\ UNCHANGED <<apiVars, otherVars>>

\* the if / else-if / else and mLastUpdateSlice = current_slice
ReconcileStep(t) ==
    /\ pc[t] = "read"
    /\ LET rec == Reconcile(seen[t], mLastUpdateSlice, mRequestCounters,
                            mCurrentRPS)
       IN  /\ mRequestCounters' = rec.counters
           /\ mCurrentRPS' = rec.rps
    /\ mLastUpdateSlice' = seen[t]
    /\ pc' = [pc EXCEPT ![t] = "reconciled"]
    /\ UNCHANGED <<now, mMaxRPS, mLock, granted, denied, last, fresh,
                   seen, passed>>
    /\ UNCHANGED <<apiVars, otherVars>>

\* if (mCurrentRPS < mMaxRPS)
TestStep(t) ==
    /\ pc[t] = "reconciled"
    /\ passed' = [passed EXCEPT ![t] = HasCapacity(mCurrentRPS, mMaxRPS)]
    /\ pc' = [pc EXCEPT ![t] = "tested"]
    /\ UNCHANGED <<now, mLastUpdateSlice, mMaxRPS, mRequestCounters,
                   mCurrentRPS, mLock, granted, denied, last, fresh, seen>>
    /\ UNCHANGED <<apiVars, otherVars>>

\* the two increments and return true, or return false; the guard is
\* released and the locals go out of scope
ReturnStep(t) ==
    /\ pc[t] = "tested"
    /\ mCurrentRPS' = IF passed[t] THEN mCurrentRPS + 1 ELSE mCurrentRPS
    /\ mRequestCounters' =
           Record(mRequestCounters, seen[t] % HISTORY_LENGTH, passed[t])
    /\ granted' = IF passed[t] THEN [granted EXCEPT ![seen[t]] = @ + 1]
                  ELSE granted
    /\ denied' = IF passed[t] THEN denied
                 ELSE [denied EXCEPT ![seen[t]] = @ + 1]
    /\ mLock' = NoThread
    /\ pc' = [pc EXCEPT ![t] = "ready"]
    /\ seen' = [seen EXCEPT ![t] = 0]
    /\ passed' = [passed EXCEPT ![t] = FALSE]
    /\ UNCHANGED <<now, mLastUpdateSlice, mMaxRPS, last, fresh>>
    /\ UNCHANGED <<apiVars, otherVars>>

NextCS ==
    \/ Tick
    \/ \E t \in Threads : LockGuard(t)
    \/ \E t \in Threads : ReadClock(t)
    \/ \E t \in Threads : ReconcileStep(t)
    \/ \E t \in Threads : TestStep(t)
    \/ \E t \in Threads : ReturnStep(t)

\* a limiter constructed one window and two slices before the last slice
InitCS ==
    /\ now = MaxSlice - HISTORY_LENGTH - 1
    /\ mMaxRPS \in 0..MaxRPS
    /\ mLastUpdateSlice = now
    /\ mRequestCounters = [i \in Slots |-> 0]
    /\ mCurrentRPS = 0
    /\ mLock = NoThread
    /\ pc = [t \in Threads |-> "ready"]
    /\ granted = [s \in Slices |-> 0]
    /\ denied = [s \in Slices |-> 0]
    /\ last = NoCall
    /\ fresh = [active |-> FALSE]
    /\ seen = [t \in Threads |-> 0]
    /\ passed = [t \in Threads |-> FALSE]
    /\ ApiConstructed(0)
    /\ stat_i = 0 /\ rolling = 0
    /\ LiftOff

SpecCS == InitCS /\ [][NextCS]_vars

\* ------------------------------------------------ API and the workers
\* f[1] + ... + f[Len(f)]
RECURSIVE SumSeq(_)
SumSeq(q) == IF q = <<>> THEN 0 ELSE Head(q) + SumSeq(Tail(q))

\* std::deque::resize(n): value-initialized elements appended, or the tail cut
Resize(q, n) ==
    IF n >= Len(q) THEN q \o [k \in 1..(n - Len(q)) |-> 0]
    ELSE SubSeq(q, 1, n)

\* a resize made whatever the size is
GrowSuccessfullAlways(q, idx) == Resize(q, idx + 1)

\* if (time_index >= mSuccessfullCalls.size()) resize(time_index + 1)
GrowSuccessfull(q, idx) == IF idx >= Len(q) THEN Resize(q, idx + 1) ELSE q

\* a second deque that is never resized
GrowRateLimitedNever(q, idx) == q

\* if (time_index >= mRateLimitedCalls.size()) resize(time_index + 1)
GrowRateLimited(q, idx) == IF idx >= Len(q) THEN Resize(q, idx + 1) ELSE q

\* an increment that is lost
BumpDropped(q, idx) == q

\* ++q[time_index]
Bump(q, idx) == [q EXCEPT ![idx + 1] = @ + 1]

\* static_cast<size_t>(seconds since mStartDate * 10), the clock in slices
BucketOf(t_now, start) == ((t_now - start) * 10) \div N_TIME_SLICES

\* what the steps of API::call leave alone in the limiter's history
apiIdle == <<last, fresh, csVars, otherVars>>

\* api.call(): the lock_guard of tryAquireRequestTicket
CallLock(t) ==
    /\ mainpc = "join"
    /\ pc[t] = "ready"
    /\ iter[t] < CallsPerThread
    /\ mLock = NoThread
    /\ mLock' = t
    /\ pc' = [pc EXCEPT ![t] = "ticket"]
    /\ UNCHANGED <<now, mLastUpdateSlice, mMaxRPS, mRequestCounters,
                   mCurrentRPS, granted, denied, apiIdle, apiVars>>

\* bool called = mRateLimit.tryAquireRequestTicket(), past the lock_guard
CallTicket(t) ==
    /\ pc[t] = "ticket"
    /\ LET rl == [last |-> mLastUpdateSlice, max |-> mMaxRPS,
                  counters |-> mRequestCounters, rps |-> mCurrentRPS]
           out == Ticket(rl, now)
       IN  /\ mLastUpdateSlice' = out.last
           /\ mRequestCounters' = out.counters
           /\ mCurrentRPS' = out.rps
           /\ called' = [called EXCEPT ![t] = out.result]
           /\ granted' = IF out.result THEN [granted EXCEPT ![now] = @ + 1]
                         ELSE granted
           /\ denied' = IF out.result THEN denied
                        ELSE [denied EXCEPT ![now] = @ + 1]
    /\ mLock' = NoThread
    /\ pc' = [pc EXCEPT ![t] = "returned"]
    /\ UNCHANGED <<now, mMaxRPS, apiIdle, mStartDate, mSuccessfullCalls,
                   mRateLimitedCalls, apiLock, time_index, iter, mainpc>>

\* auto now = steady_clock::now(); size_t time_index = ...
ReadNow(t) ==
    /\ pc[t] = "returned"
    /\ time_index' = [time_index EXCEPT ![t] = BucketOf(now, mStartDate)]
    /\ pc' = [pc EXCEPT ![t] = "indexed"]
    /\ UNCHANGED <<now, mLastUpdateSlice, mMaxRPS, mRequestCounters,
                   mCurrentRPS, mLock, granted, denied, apiIdle, mStartDate,
                   mSuccessfullCalls, mRateLimitedCalls, apiLock, called,
                   iter, mainpc>>

\* std::lock_guard<std::mutex> guard(mLock) of API::call and the two
\* resizes it guards; no other thread sees the deques in between
RecordLock(t) ==
    /\ pc[t] = "indexed"
    /\ apiLock = NoThread
    /\ apiLock' = t
    /\ mSuccessfullCalls' = GrowSuccessfull(mSuccessfullCalls, time_index[t])
    /\ mRateLimitedCalls' = GrowRateLimited(mRateLimitedCalls, time_index[t])
    /\ pc' = [pc EXCEPT ![t] = "grown"]
    /\ UNCHANGED <<now, mLastUpdateSlice, mMaxRPS, mRequestCounters,
                   mCurrentRPS, mLock, granted, denied, apiIdle, mStartDate,
                   called, time_index, iter, mainpc>>

\* a count that keeps API::mLock
CountStepNoRelease(t) ==
    /\ pc[t] = "grown"
    /\ IF called[t]
       THEN /\ mSuccessfullCalls' = Bump(mSuccessfullCalls, time_index[t])
            /\ UNCHANGED mRateLimitedCalls
       ELSE /\ mRateLimitedCalls' = Bump(mRateLimitedCalls, time_index[t])
            /\ UNCHANGED mSuccessfullCalls
    /\ iter' = [iter EXCEPT ![t] = @ + 1]
    /\ called' = [called EXCEPT ![t] = FALSE]
    /\ time_index' = [time_index EXCEPT ![t] = 0]
    /\ pc' = [pc EXCEPT ![t] = "ready"]
    /\ UNCHANGED <<now, mLastUpdateSlice, mMaxRPS, mRequestCounters,
                   mCurrentRPS, mLock, granted, denied, apiIdle, mStartDate,
                   apiLock, mainpc>>

\* the increment of one counter; the guard is released, call() returns and
\* the loop of thread_func goes on
CountStep(t) ==
    /\ pc[t] = "grown"
    /\ IF called[t]
       THEN /\ mSuccessfullCalls' = Bump(mSuccessfullCalls, time_index[t])
            /\ UNCHANGED mRateLimitedCalls
       ELSE /\ mRateLimitedCalls' = Bump(mRateLimitedCalls, time_index[t])
            /\ UNCHANGED mSuccessfullCalls
    /\ apiLock' = NoThread
    /\ iter' = [iter EXCEPT ![t] = @ + 1]
    /\ called' = [called EXCEPT ![t] = FALSE]
    /\ time_index' = [time_index EXCEPT ![t] = 0]
    /\ pc' = [pc EXCEPT ![t] = "ready"]
    /\ UNCHANGED <<now, mLastUpdateSlice, mMaxRPS, mRequestCounters,
                   mCurrentRPS, mLock, granted, denied, apiIdle, mStartDate,
                   mainpc>>

\* every worker has left thread_func
AllJoined == \A t \in Threads : pc[t] = "ready" /\ iter[t] = CallsPerThread

\* for (auto& w : workers) w.join(); api.printStat(), which takes API::mLock
\* and only reads
JoinAndPrint ==
    /\ mainpc = "join"
    /\ AllJoined
    /\ apiLock = NoThread
    /\ mainpc' = "done"
    /\ UNCHANGED <<now, mLastUpdateSlice, mMaxRPS, mRequestCounters,
                   mCurrentRPS, mLock, pc, granted, denied, apiIdle,
                   mStartDate, mSuccessfullCalls, mRateLimitedCalls, apiLock,
                   called, time_index, iter>>

\* one step of worker t
Worker(t) ==
    \/ CallLock(t)
    \/ CallTicket(t)
    \/ ReadNow(t)
    \/ RecordLock(t)
    \/ CountStep(t)

NextAPI ==
    \/ Tick
    \/ \E t \in Threads : Worker(t)
    \/ JoinAndPrint

\* main: RateLimit and API constructed ApiSlices before the last slice
InitAPI ==
    /\ now = MaxSlice - ApiSlices
    /\ mMaxRPS = NThreads - 1
    /\ mLastUpdateSlice = now
    /\ mRequestCounters = [i \in Slots |-> 0]
    /\ mCurrentRPS = 0
    /\ mLock = NoThread
    /\ pc = [t \in Threads |-> "ready"]
    /\ granted = [s \in Slices |-> 0]
    /\ denied = [s \in Slices |-> 0]
    /\ last = NoCall
    /\ fresh = [active |-> FALSE]
    /\ seen = [t \in Threads |-> 0]
    /\ passed = [t \in Threads |-> FALSE]
    /\ ApiConstructed(now)
    /\ stat_i = 0 /\ rolling = 0
    /\ LiftOff

SpecAPI == InitAPI /\ [][NextAPI]_vars

\* a step of a worker or of main
Running == (\E t \in Threads : Worker(t)) \/ JoinAndPrint

\* the scheduler runs some thread while one can run
SpecAPIFair == SpecAPI /\ WF_vars(Running)

\* -------------------------------------------------------- API::printStat
\* main, which takes API::mLock in printStat
MainThread == NThreads + 1

\* what a bucket of the report holds
StatCounts == 0..1

\* the limiter as main leaves it: not called any more
LimiterIdle ==
    /\ now = 0
    /\ mMaxRPS = 0
    /\ mLastUpdateSlice = 0
    /\ mRequestCounters = [i \in Slots |-> 0]
    /\ mCurrentRPS = 0
    /\ mLock = NoThread
    /\ pc = [t \in Threads |-> "ready"]
    /\ granted = [s \in Slices |-> 0]
    /\ denied = [s \in Slices |-> 0]
    /\ last = NoCall
    /\ fresh = [active |-> FALSE]
    /\ seen = [t \in Threads |-> 0]
    /\ passed = [t \in Threads |-> FALSE]

\* std::accumulate(begin() + lo, begin() + hi, 0)
RECURSIVE Accumulate(_, _, _)
Accumulate(q, lo, hi) ==
    IF lo >= hi THEN 0
    ELSE q[lo + 1] + Accumulate(q, lo + 1, hi)

\* std::max<size_t>(0, i - 9) as begin() + . takes it.  i - 9 is computed in
\* size_t and wraps below 0 to 2^64 + i - 9; std::max<size_t> compares it
\* with 0 as size_t and so returns it unchanged; operator+ of the iterator
\* takes its argument as the signed difference_type, where the wrapped value
\* is i - 9 again, negative for i < 9.
StartOffset(i) == i - ROLL_BACK

\* begin() + off is an iterator of q
InDeque(q, off) == 0 <= off /\ off <= Len(q)

\* what the last column can show when accumulate starts before begin()
RollingOutcomes == (0 - 1)..(ROLL_BACK + 1)

\* what printStat leaves alone
statIdle == <<now, mLastUpdateSlice, mMaxRPS, mRequestCounters, mCurrentRPS,
              mLock, pc, granted, denied, last, fresh, csVars, mStartDate,
              mSuccessfullCalls, mRateLimitedCalls, called, time_index, iter,
              liftVars>>

\* api.printStat(): std::lock_guard<std::mutex> guard(mLock), size_t i = 0
StatEnter ==
    /\ mainpc = "join"
    /\ AllJoined
    /\ apiLock = NoThread
    /\ apiLock' = MainThread
    /\ mainpc' = "print"
    /\ stat_i' = 0
    /\ UNCHANGED <<rolling, statIdle>>

\* one row of the report.  An accumulate that starts before begin() reads
\* outside the deque: the row shows any number, or the program ends there.
PrintRow ==
    /\ mainpc = "print"
    /\ stat_i # Len(mSuccessfullCalls)
    /\ stat_i < Len(mRateLimitedCalls)
    /\ LET first == StartOffset(stat_i)
       IN  IF InDeque(mSuccessfullCalls, first)
           THEN /\ rolling' = Accumulate(mSuccessfullCalls, first, stat_i + 1)
                /\ stat_i' = stat_i + 1
                /\ UNCHANGED <<mainpc, apiLock>>
           ELSE \/ /\ rolling' \in RollingOutcomes
                   /\ stat_i' = stat_i + 1
                   /\ UNCHANGED <<mainpc, apiLock>>
                \/ /\ mainpc' = "crashed"
                   /\ UNCHANGED <<stat_i, rolling, apiLock>>
    /\ UNCHANGED statIdle

\* i == mSuccessfullCalls.size(): the loop ends and the guard is released
PrintEnd ==
    /\ mainpc = "print"
    /\ stat_i = Len(mSuccessfullCalls)
    /\ mainpc' = "done"
    /\ apiLock' = NoThread
    /\ UNCHANGED <<stat_i, rolling, statIdle>>

NextStat ==
    \/ StatEnter
    \/ PrintRow
    \/ PrintEnd

\* the workers have joined and left a report of up to MaxRows buckets
InitStat ==
    /\ LimiterIdle
    /\ mStartDate = 0
    /\ mSuccessfullCalls \in
          UNION {[1..len -> StatCounts] : len \in 0..MaxRows}
    /\ mRateLimitedCalls = [k \in DOMAIN mSuccessfullCalls |-> 0]
    /\ apiLock = NoThread
    /\ called = [t \in Threads |-> FALSE]
    /\ time_index = [t \in Threads |-> 0]
    /\ iter = [t \in Threads |-> CallsPerThread]
    /\ mainpc = "join"
    /\ stat_i = 0 /\ rolling = 0
    /\ LiftOff

SpecStat == InitStat /\ [][NextStat]_vars

\* ------------------------------------------------------------- lift.cpp
\* std::cin >> n: the value left in n and std::cin.good() afterwards.  A
\* number followed by more input leaves the stream good; a number that ends
\* the input sets eofbit; text that is no number, or no input at all,
\* stores 0 and sets failbit; a number too large stores the largest int and
\* sets failbit.
Extractions ==
    {[value |-> v, good |-> g] :
        v \in (0 - 1)..(MAX_FLOORS + 1), g \in BOOLEAN}

\* a check that forgets the upper limit
ValidCommandNoUpper(v, floors) == ~(v < 1)

\* if (n < 1 || n > n_floors) continue;
ValidCommand(v, floors) == ~(v < 1 \/ v > floors)

Abs(x) == IF x < 0 THEN 0 - x ELSE x

\* what the lift program leaves alone
liftIdle == <<now, mLastUpdateSlice, mMaxRPS, mRequestCounters, mCurrentRPS,
              mLock, pc, granted, denied, last, fresh, csVars, apiVars,
              statVars>>

\* lines 37-50: the check of n_floors and the initial state
LiftStart ==
    /\ liftpc = "start"
    /\ IF n_floors < MIN_FLOORS \/ n_floors > MAX_FLOORS
       THEN /\ liftpc' = "usage"
            /\ UNCHANGED <<current_floor, destination_floor>>
       ELSE /\ liftpc' = "loop"
            /\ current_floor' = 1
            /\ destination_floor' = 1
    /\ lift_state' = "idle"
    /\ UNCHANGED <<n_floors, cmd, cin_good, moves, dist, liftIdle>>

\* case lift_state_idle
LiftIdle ==
    /\ liftpc = "loop"
    /\ cin_good
    /\ lift_state = "idle"
    /\ \E e \in Extractions :
          /\ cmd' = e.value
          /\ cin_good' = e.good
          /\ IF ~ValidCommand(e.value, n_floors)
             THEN UNCHANGED <<lift_state, destination_floor, moves, dist>>
             ELSE IF current_floor = e.value
             THEN /\ lift_state' = "open"
                  /\ moves' = 0
                  /\ dist' = 0
                  /\ UNCHANGED destination_floor
             ELSE /\ lift_state' = "moving"
                  /\ destination_floor' = e.value
                  /\ moves' = 0
                  /\ dist' = Abs(e.value - current_floor)
    /\ UNCHANGED <<n_floors, current_floor, liftpc, liftIdle>>

\* case lift_state_open
LiftOpen ==
    /\ liftpc = "loop"
    /\ cin_good
    /\ lift_state = "open"
    /\ lift_state' = "close"
    /\ UNCHANGED <<n_floors, current_floor, destination_floor, cmd, cin_good,
                   liftpc, moves, dist, liftIdle>>

\* case lift_state_close
LiftClose ==
    /\ liftpc = "loop"
    /\ cin_good
    /\ lift_state = "close"
    /\ lift_state' = "idle"
    /\ moves' = 0
    /\ dist' = 0
    /\ UNCHANGED <<n_floors, current_floor, destination_floor, cmd, cin_good,
                   liftpc, liftIdle>>

\* case lift_state_moving
LiftMoving ==
    /\ liftpc = "loop"
    /\ cin_good
    /\ lift_state = "moving"
    /\ LET arrived == IF current_floor < destination_floor
                      THEN current_floor + 1
                      ELSE IF current_floor > destination_floor
                      THEN current_floor - 1
                      ELSE current_floor
       IN  /\ current_floor' = arrived
           /\ moves' = IF arrived # current_floor THEN moves + 1 ELSE moves
           /\ lift_state' = IF arrived = destination_floor THEN "open"
                            ELSE "moving"
    /\ UNCHANGED <<n_floors, destination_floor, cmd, cin_good, liftpc, dist,
                   liftIdle>>

\* while (std::cin.good()) found false: "lift program is terminated"
LiftTerminate ==
    /\ liftpc = "loop"
    /\ ~cin_good
    /\ liftpc' = "terminated"
    /\ UNCHANGED <<n_floors, current_floor, destination_floor, lift_state,
                   cmd, cin_good, moves, dist, liftIdle>>

NextLift ==
    \/ LiftStart
    \/ LiftIdle
    \/ LiftOpen
    \/ LiftClose
    \/ LiftMoving
    \/ LiftTerminate

\* main entered with four arguments, n_floors = atoi(argv[1])
InitLift ==
    /\ LimiterIdle
    /\ ApiConstructed(0)
    /\ stat_i = 0 /\ rolling = 0
    /\ n_floors \in (MIN_FLOORS - 1)..(MAX_FLOORS + 1)
    /\ current_floor = 0
    /\ destination_floor = 0
    /\ lift_state = "idle"
    /\ cmd = 0
    /\ cin_good = TRUE
    /\ liftpc = "start"
    /\ moves = 0
    /\ dist = 0

SpecLift == InitLift /\ [][NextLift]_vars

\* ================================================================ claims
\* Slots whose slices have left the window when a call at slice cur follows
\* a call at slice lst.
AgedSlots(cur, lst) ==
    IF cur = lst THEN {}
    ELSE IF cur - lst < HISTORY_LENGTH
         THEN {s % HISTORY_LENGTH : s \in (lst + 1)..cur}
    ELSE Slots

\* The counts stored in the slots of S.
AgedCount(counters, S) ==
    SumTo([i \in Slots |-> IF i \in S THEN counters[i] ELSE 0],
          HISTORY_LENGTH - 1)

\* The branch the most recent call took, from the slices elapsed before it.
LastPath ==
    IF ~last.done THEN "none"
    ELSE IF last.elapsed = 0 THEN "same"
    ELSE IF last.elapsed < HISTORY_LENGTH THEN "partial"
    ELSE "full"

\* Thread t returns from tryAquireRequestTicket in this step.
Returns(t) == pc[t] = "locked" /\ pc'[t] = "ready"

TotalGranted == SumTo(granted, MaxSlice)
TotalDenied == SumTo(denied, MaxSlice)

\* C1: in every run of N_TIME_SLICES consecutive time slices, the number of
\* calls that returned true is at most mMaxRPS.
C1_WindowBound ==
    \A a \in Slices :
        SumRange(granted, a, a + N_TIME_SLICES - 1) <= mMaxRPS

\* C1 witness: a window filled to the cap by admissions of two different
\* slices, with later admissions outside it and calls denied.
C1_Witness ==
    /\ mMaxRPS >= 2
    /\ TotalGranted > mMaxRPS
    /\ TotalDenied > 0
    /\ \E a \in Slices :
          /\ SumRange(granted, a, a + N_TIME_SLICES - 1) = mMaxRPS
          /\ \E s1, s2 \in a..(a + N_TIME_SLICES - 1) :
                s1 < s2 /\ s2 \in Slices /\ granted[s1] > 0 /\ granted[s2] > 0

\* C2: a call returns true exactly when the aggregate, less the counts of the
\* aged slots, is below mMaxRPS; a call that returns true adds 1 to the
\* aggregate and to the slot of the current slice and, reconciliation aside,
\* changes no other slot.
C2_AdmitIffBelowMax ==
    [][\A t \in Threads : Returns(t) =>
        LET aged == AgedSlots(now, mLastUpdateSlice)
            agg == mCurrentRPS - AgedCount(mRequestCounters, aged)
            to_index == now % HISTORY_LENGTH
            kept(j) == IF j \in aged THEN 0 ELSE mRequestCounters[j]
        IN  /\ last'.result <=> agg < mMaxRPS
            /\ last'.result =>
                 /\ mCurrentRPS' = agg + 1
                 /\ mRequestCounters'[to_index] = kept(to_index) + 1
                 /\ \A j \in Slots \ {to_index} :
                        mRequestCounters'[j] = kept(j)]_vars

\* C2 witness: the aggregate was at the cap, partial aging made room, and the
\* call returned true.
C2_Witness ==
    /\ LastPath = "partial"
    /\ last.result
    /\ mMaxRPS >= 2
    /\ last.prior = mMaxRPS
    /\ mCurrentRPS = 2

\* C3: the aggregate is at least 0 and at most mMaxRPS.
C3_AggregateInRange ==
    0 <= mCurrentRPS /\ mCurrentRPS <= mMaxRPS

\* C3 witness: a call after a clock advance found the aggregate at a cap of
\* at least 2 and was denied.
C3_Witness ==
    /\ LastPath = "partial"
    /\ ~last.result
    /\ mMaxRPS >= 2
    /\ mCurrentRPS = mMaxRPS

\* C4: outside the critical section the aggregate is the sum of all slots.
C4_AggregateIsSum ==
    mLock = NoThread =>
        mCurrentRPS = SumTo(mRequestCounters, HISTORY_LENGTH - 1)

\* C4 witness: partial aging removed stored counts and the call was admitted
\* into a buffer that still holds an older admission.
C4_Witness ==
    /\ mLock = NoThread
    /\ LastPath = "partial"
    /\ last.result
    /\ last.prior > 1
    /\ mCurrentRPS = 2
    /\ \E i, j \in Slots : i # j /\ mRequestCounters[i] = 1
                                 /\ mRequestCounters[j] = 1

\* C5: with mMaxRPS = 0 no call ever returns true.
C5_ZeroLimitDenies ==
    mMaxRPS = 0 => (TotalGranted = 0 /\ (last.done => ~last.result))

\* C5 witness: mMaxRPS = 0, calls denied in the same slice, after a short
\* and after a long clock advance, another caller holding the lock.
C5_Witness ==
    /\ mMaxRPS = 0
    /\ LastPath = "full"
    /\ ~last.result
    /\ mLock # NoThread
    /\ \E s1, s2 \in Slices :
          /\ denied[s1] >= 2
          /\ s1 < s2 /\ s2 - s1 < HISTORY_LENGTH /\ denied[s2] >= 1
          /\ s2 < last.slice

\* The slice of the first call made on the limiter.
FirstCallSlice ==
    CHOOSE s \in Slices :
        /\ granted[s] + denied[s] > 0
        /\ \A r \in 0..(s - 1) : granted[r] + denied[r] = 0

\* C6: on a cold limiter with mMaxRPS = K > 0 the first K calls return true,
\* and the (K+1)-th and every further call made fewer than HISTORY_LENGTH
\* slices (so within one second) after the first call returns false.
C6_ColdBurst ==
    (mMaxRPS > 0 /\ last.done) =>
        /\ nCalls <= mMaxRPS => TotalDenied = 0
        /\ (nCalls > mMaxRPS /\ last.slice - FirstCallSlice < HISTORY_LENGTH)
              => ~last.result

\* C6 witness: K = 2 calls admitted, then two calls denied, the last of them
\* in a later slice of the same second.
C6_Witness ==
    /\ mMaxRPS >= 2
    /\ last.done /\ ~last.result
    /\ TotalGranted = mMaxRPS
    /\ TotalDenied >= 2
    /\ last.slice > FirstCallSlice
    /\ last.slice - FirstCallSlice < N_TIME_SLICES

GrantedSinceBorn == SumRange(granted, fresh.born, MaxSlice)
DeniedSinceBorn == SumRange(denied, fresh.born, MaxSlice)

C8_DeniedCallsAreFree ==
    last.done =>
        LET inWindow == SumRange(granted, last.slice - N_TIME_SLICES,
                                 last.slice)
        IN  IF last.result THEN inWindow <= mMaxRPS
            ELSE inWindow >= mMaxRPS

\* C8 witness: K = 2 admissions in one slice, a denied call at a later slice
\* of the following second, then at a slice past the window 2 admissions
\* and a denial.
C8_Witness ==
    /\ mMaxRPS >= 2
    /\ last.done /\ ~last.result
    /\ granted[last.slice] = mMaxRPS
    /\ denied[last.slice] = 1
    /\ \E s1, s2 \in Slices :
          /\ granted[s1] = mMaxRPS
          /\ s1 < s2 /\ s2 < last.slice
          /\ denied[s2] >= 1
          /\ last.slice - s1 >= HISTORY_LENGTH
          /\ last.slice - s2 < HISTORY_LENGTH

\* C9: a call that returns false sets mLastUpdateSlice, zeroes the aged
\* slots and subtracts their counts, and changes nothing else; a call made
\* in the slice of the previous call with the aggregate at mMaxRPS returns
\* false and leaves aggregate, slots and mLastUpdateSlice unchanged.
C9_DenialFrame ==
    [][\A t \in Threads : Returns(t) =>
        LET aged == AgedSlots(now, mLastUpdateSlice)
        IN  /\ ~last'.result =>
                 /\ mLastUpdateSlice' = now
                 /\ mCurrentRPS' =
                        mCurrentRPS - AgedCount(mRequestCounters, aged)
                 /\ \A j \in Slots :
                        mRequestCounters'[j] =
                            IF j \in aged THEN 0 ELSE mRequestCounters[j]
                 /\ mMaxRPS' = mMaxRPS
            /\ (mCurrentRPS = mMaxRPS /\ now = mLastUpdateSlice) =>
                 /\ ~last'.result
                 /\ UNCHANGED <<mCurrentRPS, mRequestCounters,
                                mLastUpdateSlice>>]_vars

\* C9 witness: two calls in a row denied in one slice with the aggregate at
\* the cap, some admissions being older than that slice.
C9_Witness ==
    /\ mMaxRPS >= 1
    /\ last.done /\ ~last.result /\ ~last.prev
    /\ last.elapsed = 0
    /\ last.prior = mMaxRPS
    /\ mCurrentRPS = mMaxRPS
    /\ denied[last.slice] >= 2
    /\ granted[last.slice] < mMaxRPS

\* C10: a call that follows the previous call by more than N_TIME_SLICES
\* slices finds aggregate and slots all 0 (so leaves one admission, or
\* nothing), and from then on every call returns what a limiter constructed
\* at that call's slice returns for the same calls.
C10_IdleResetIsFresh ==
    /\ (last.done /\ last.elapsed > N_TIME_SLICES) =>
          /\ mCurrentRPS = (IF last.result THEN 1 ELSE 0)
          /\ mRequestCounters =
                [i \in Slots |->
                    IF last.result /\ i = last.slice % HISTORY_LENGTH
                    THEN 1 ELSE 0]
    /\ fresh.active =>
          /\ last.result = fresh.result
          /\ mCurrentRPS = fresh.rps
          /\ mRequestCounters = fresh.counters
          /\ mLastUpdateSlice = fresh.last

\* C10 witness: admissions, more than a second without calls, a reset call,
\* then calls at later slices that age out the reset call's admission.
C10_Witness ==
    /\ fresh.active
    /\ mMaxRPS >= 1
    /\ SumRange(granted, 0, fresh.born - 1) >= 1
    /\ granted[fresh.born] >= 1
    /\ last.slice - fresh.born >= N_TIME_SLICES
    /\ LastPath = "partial"
    /\ DeniedSinceBorn >= 1
    /\ GrantedSinceBorn > granted[fresh.born]

\* Thread t is between its lock_guard and its return.
InSection(t) == pc[t] # "ready"

\* C11: at most one thread at a time is between taking the lock and
\* returning, and it holds the lock; the slice a thread reads is not below
\* the slice of the previous critical section; a thread that passed the test
\* of mCurrentRPS < mMaxRPS still finds it true when it increments.
C11_OneInCriticalSection ==
    /\ \A t, u \in Threads : (InSection(t) /\ InSection(u)) => t = u
    /\ \A t \in Threads : InSection(t) => mLock = t
    /\ \A t \in Threads : pc[t] = "read" => seen[t] >= mLastUpdateSlice
    /\ \A t \in Threads :
          (pc[t] = "tested" /\ passed[t]) => mCurrentRPS < mMaxRPS
    /\ mCurrentRPS <= mMaxRPS

\* C11 witness: a thread has passed the test for the last unit of capacity
\* and not yet incremented, the clock has moved on since it read it, and
\* another thread is ready to call.
C11_Witness ==
    \E t, u \in Threads :
        /\ t # u
        /\ pc[t] = "tested" /\ passed[t]
        /\ mMaxRPS >= 2 /\ mCurrentRPS = mMaxRPS - 1
        /\ now > seen[t]
        /\ pc[u] = "ready" /\ nCalls < MaxCalls
        /\ TotalDenied >= 1

\* Thread t runs the reconciliation in this step.
Reconciles(t) == pc[t] = "read" /\ pc'[t] = "reconciled"

\* C15: when 0 < current_slice - mLastUpdateSlice < HISTORY_LENGTH the
\* reconciliation zeroes exactly the slots of the slices mLastUpdateSlice + 1
\* .. current_slice, subtracts their counts from the aggregate, leaves every
\* other slot (the slot of mLastUpdateSlice among them) unchanged, and its
\* loop body runs current_slice - mLastUpdateSlice times.
C15_PartialAging ==
    [][\A t \in Threads :
        (/\ Reconciles(t)
         /\ 0 < seen[t] - mLastUpdateSlice
         /\ seen[t] - mLastUpdateSlice < HISTORY_LENGTH) =>
        LET aged == {s % HISTORY_LENGTH :
                        s \in (mLastUpdateSlice + 1)..seen[t]}
        IN  /\ \A j \in Slots :
                  mRequestCounters'[j] =
                      IF j \in aged THEN 0 ELSE mRequestCounters[j]
            /\ mRequestCounters'[mLastUpdateSlice % HISTORY_LENGTH] =
                  mRequestCounters[mLastUpdateSlice % HISTORY_LENGTH]
            /\ mCurrentRPS' =
                  mCurrentRPS - AgedCount(mRequestCounters, aged)
            /\ Cardinality(aged) = seen[t] - mLastUpdateSlice
            /\ AgeCount(AgeFrom(mLastUpdateSlice % HISTORY_LENGTH),
                        AgeStop(seen[t] % HISTORY_LENGTH)) =
                  seen[t] - mLastUpdateSlice]_vars

\* C15 witness: a reconciliation whose index range wrapped around the end of
\* the buffer has aged out an old admission and kept a newer one.
C15_Witness ==
    \E t \in Threads : \E s1, s2 \in Slices :
        /\ pc[t] = "reconciled"
        /\ s1 < s2 /\ s2 < seen[t]
        /\ granted[s1] > 0 /\ granted[s2] > 0
        /\ seen[t] - s1 >= HISTORY_LENGTH
        /\ seen[t] - s2 < HISTORY_LENGTH
        /\ SumRange(granted, s2 + 1, MaxSlice) = 0
        /\ SumRange(denied, s2 + 1, MaxSlice) = 0
        /\ s2 % HISTORY_LENGTH > seen[t] % HISTORY_LENGTH
        /\ mRequestCounters[s1 % HISTORY_LENGTH] = 0
        /\ mCurrentRPS = granted[s2]

\* The slice of mLastUpdateSlice - N_TIME_SLICES .. mLastUpdateSlice that
\* slot j stands for.
SliceOfSlot(j) ==
    mLastUpdateSlice - ((mLastUpdateSlice + HISTORY_LENGTH - j) % HISTORY_LENGTH)

\* C16: after every call, at slice c = mLastUpdateSlice, the aggregate is
\* the number of admissions granted in slices c - (HISTORY_LENGTH - 1) .. c
\* and slot j holds the number granted in the slice of that range congruent
\* to j modulo HISTORY_LENGTH.
C16_RingRefinesHistory ==
    /\ mCurrentRPS =
          SumRange(granted, mLastUpdateSlice - (HISTORY_LENGTH - 1),
                   mLastUpdateSlice)
    /\ \A j \in Slots :
          /\ SliceOfSlot(j) % HISTORY_LENGTH = j
          /\ mRequestCounters[j] =
                 IF SliceOfSlot(j) \in Slices THEN granted[SliceOfSlot(j)]
                 ELSE 0

\* C16 witness: after partial aging and an admission the buffer holds
\* admissions of two slices while an older admission has left the window.
C16_Witness ==
    /\ LastPath = "partial"
    /\ last.result
    /\ mCurrentRPS = 2
    /\ TotalGranted > mCurrentRPS
    /\ \E s \in Slices :
          /\ s < last.slice /\ last.slice - s < HISTORY_LENGTH
          /\ granted[s] = 1
          /\ s % HISTORY_LENGTH > last.slice % HISTORY_LENGTH

\* Thread t increments its counter and returns from API::call in this step.
Counts(t) == pc[t] = "grown" /\ pc'[t] = "ready"

\* C12: a call that completes adds 1 to mSuccessfullCalls[b] if its ticket
\* was granted and to mRateLimitedCalls[b] otherwise, b = time_index being a
\* bucket of the elapsed time and a valid index of both sequences at that
\* moment, and changes no other count; no step makes a sequence shorter or
\* changes a count otherwise.
C12_OneCounterPerCall ==
    [][/\ \A t \in Threads : Counts(t) =>
            LET b == time_index[t]
            IN  /\ 0 <= b /\ b <= BucketOf(now, mStartDate)
                /\ b < Len(mSuccessfullCalls)
                /\ b < Len(mRateLimitedCalls)
                /\ mSuccessfullCalls' =
                      IF called[t]
                      THEN [mSuccessfullCalls EXCEPT ![b + 1] = @ + 1]
                      ELSE mSuccessfullCalls
                /\ mRateLimitedCalls' =
                      IF called[t] THEN mRateLimitedCalls
                      ELSE [mRateLimitedCalls EXCEPT ![b + 1] = @ + 1]
       /\ Len(mSuccessfullCalls') >= Len(mSuccessfullCalls)
       /\ Len(mRateLimitedCalls') >= Len(mRateLimitedCalls)
       /\ (\A t \in Threads : ~Counts(t)) =>
             /\ SubSeq(mSuccessfullCalls', 1, Len(mSuccessfullCalls)) =
                   mSuccessfullCalls
             /\ SubSeq(mRateLimitedCalls', 1, Len(mRateLimitedCalls)) =
                   mRateLimitedCalls
             /\ SumSeq(mSuccessfullCalls') = SumSeq(mSuccessfullCalls)
             /\ SumSeq(mRateLimitedCalls') = SumSeq(mRateLimitedCalls)]_vars

\* C12 witness: a caller is about to increment a bucket below the last one,
\* another caller having grown the sequences and counted there first.
C12_Witness ==
    \E t, u \in Threads :
        /\ t # u
        /\ pc[t] = "grown"
        /\ time_index[t] + 1 < Len(mSuccessfullCalls)
        /\ iter[u] >= 1
        /\ mSuccessfullCalls[Len(mSuccessfullCalls)]
             + mRateLimitedCalls[Len(mRateLimitedCalls)] >= 1

C17_SameLength ==
    Len(mSuccessfullCalls) = Len(mRateLimitedCalls)

\* C17 witness: a call was counted in a later bucket and a caller with a
\* bucket below the last has passed both ifs without a resize.
C17_Witness ==
    /\ Len(mSuccessfullCalls) >= 2
    /\ SumSeq(mSuccessfullCalls) + SumSeq(mRateLimitedCalls) >= 1
    /\ \E t \in Threads :
          pc[t] = "grown" /\ time_index[t] + 1 < Len(mRateLimitedCalls)

\* Workers whose ticket returned b and who have not counted it yet.
Pending(b) ==
    {t \in Threads :
        pc[t] \in {"returned", "indexed", "grown"}
        /\ called[t] = b}

\* C18: the counts of mSuccessfullCalls sum to the completed calls whose
\* ticket was granted, those of mRateLimitedCalls to the completed calls
\* whose ticket was denied, and once every worker has joined the two sums
\* add up to NThreads * CallsPerThread.
C18_CountsConserved ==
    /\ SumSeq(mSuccessfullCalls) + Cardinality(Pending(TRUE)) = TotalGranted
    /\ SumSeq(mRateLimitedCalls) + Cardinality(Pending(FALSE)) = TotalDenied
    /\ AllJoined =>
          SumSeq(mSuccessfullCalls) + SumSeq(mRateLimitedCalls) =
              NThreads * CallsPerThread

\* C18 witness: all workers have joined, the report has run, and granted and
\* denied calls were counted in more than one bucket.
C18_Witness ==
    /\ mainpc = "done"
    /\ \E i, j \in 1..Len(mSuccessfullCalls) :
          i # j /\ mSuccessfullCalls[i] >= 1 /\ mRateLimitedCalls[j] >= 1

\* The sum of the buckets max(0, i - 9) .. i of mSuccessfullCalls.
WindowSum(i) ==
    Accumulate(mSuccessfullCalls,
               IF i > ROLL_BACK THEN i - ROLL_BACK ELSE 0, i + 1)

\* C13: printStat emits every row, and the last column of row i, the first
\* nine rows included, is the sum of mSuccessfullCalls over the buckets
\* max(0, i - 9) .. i.
C13_RollingSum ==
    /\ mainpc # "crashed"
    /\ (mainpc \in {"print", "done"} /\ stat_i >= 1) =>
          rolling = WindowSum(stat_i - 1)

\* C13, the rows from the tenth on: the last column of row i >= 9 is the
\* sum of the buckets i - 9 .. i.
C13_RowsFromTenth ==
    (mainpc \in {"print", "done"} /\ stat_i > ROLL_BACK) =>
        rolling = WindowSum(stat_i - 1)

\* C13 witness: the first row of a report was printed and its last column
\* is not the count of bucket 0.
C13_Witness ==
    /\ mainpc = "print"
    /\ stat_i = 1
    /\ rolling # mSuccessfullCalls[1]

\* C19: while the lift program runs, current_floor and destination_floor
\* are within 1..n_floors and equal whenever the lift is idle, open or
\* closing; a command outside 1..n_floors leaves the lift idle and both
\* floors unchanged.
C19_FloorsInRange ==
    /\ [](liftpc \in {"loop", "terminated"} =>
             /\ current_floor \in 1..n_floors
             /\ destination_floor \in 1..n_floors
             /\ lift_state \in {"idle", "open", "close"} =>
                   current_floor = destination_floor)
    /\ [][(/\ liftpc = "loop"
           /\ cin_good
           /\ lift_state = "idle"
           /\ (cmd' < 1 \/ cmd' > n_floors)) =>
              /\ lift_state' = "idle"
              /\ current_floor' = current_floor
              /\ destination_floor' = destination_floor]_vars

\* C19 witness: the lift has travelled and waits again, and the command just
\* read names a floor above the top one.
C19_Witness ==
    /\ liftpc = "loop"
    /\ lift_state = "idle"
    /\ current_floor > 1
    /\ cmd > n_floors
    /\ cmd <= MAX_FLOORS

\* C20: the door opens only with current_floor = destination_floor and
\* after exactly |n - current_floor| moves, a moving lift is that many moves
\* from its destination, and every accepted command has run through open
\* and close back to idle when the program ends.
C20_CommandCycle ==
    /\ lift_state = "open" =>
          current_floor = destination_floor /\ moves = dist
    /\ (liftpc = "loop" /\ lift_state = "moving") =>
          Abs(destination_floor - current_floor) = dist - moves
    /\ liftpc = "terminated" => lift_state = "idle"

\* C20, the order of the states: a step changes current_floor by one floor
\* towards destination_floor and only while moving, the door opens from
\* idle or moving only, closes after open only, idle follows close only,
\* and a command is read in idle only.
C20_DoorAndReads ==
    /\ [](lift_state = "open" =>
             current_floor = destination_floor /\ moves = dist)
    /\ [][/\ current_floor' # current_floor /\ liftpc = "loop" =>
               /\ lift_state = "moving"
               /\ Abs(current_floor' - current_floor) = 1
               /\ Abs(destination_floor - current_floor') =
                     Abs(destination_floor - current_floor) - 1
          /\ (lift_state' = "close" /\ lift_state # "close") =>
                lift_state = "open"
          /\ (lift_state' = "idle" /\ lift_state # "idle") =>
                lift_state = "close"
          /\ (lift_state = "open" /\ lift_state' # "open") =>
                lift_state' = "close"
          /\ (cmd' # cmd \/ cin_good' # cin_good) =>
                lift_state = "idle"]_vars

\* C20 witness: the program has ended with the lift on its way.
C20_Witness ==
    /\ liftpc = "terminated"
    /\ lift_state = "moving"
    /\ current_floor # destination_floor

====
